---------------------------- MODULE Spec2Model ----------------------------
(***************************************************************************)
(* MLPs_ensemble: the ensemble manager (model/ensembled_output.py), the    *)
(* four model adapters (model/*_model.py, model/matter_sim.py), the energy *)
(* correction (utils/energy_correction.py) and the dataset split           *)
(* (utils/input_parser.py).                                                *)
(*                                                                         *)
(* Python values are modelled as follows.                                  *)
(*   dict          a function whose domain is the set of keys              *)
(*   str           a sequence of tokens (characters for prediction_type,   *)
(*                 words for messages); `a in b` on strings is Contains    *)
(*   None          the record NoneValue                                    *)
(*   ase.Atoms     [type |-> "Atoms", phys |-> p]; its mutable attribute   *)
(*                 .calc lives in the variable calc[p]                     *)
(*   Structure     [type |-> "Structure", phys |-> p]                      *)
(*   float         an integer                                              *)
(* The values serialize_results tells apart by type carry their type:      *)
(* [type |-> "np.float64", val |-> v], [type |-> "list", val |-> <<...>>]. *)
(* The third-party calculators and the pymatgen compatibility scheme are   *)
(* the environment: whether each of their calls raises is an input (env).  *)
(***************************************************************************)
EXTENDS Integers, Sequences, FiniteSets, TLC

VARIABLES
    pc,               \* position of the driver: which call is in progress
    models,           \* ModelManager.models
    loaded,           \* adapters constructed so far (model loading happened)
    structures,       \* predict_batch: the argument structures
    prediction_type,  \* predict / predict_batch: the argument prediction_type
    idx,              \* predict_batch: the loop variable idx
    mi,               \* number of models the inner loop has finished
    result,           \* predict_batch: the local result
    unified_results,  \* predict_batch: the local unified_results
    structure,        \* predict: the parameter (and local) structure
    results,          \* predict: the local results
    calc,             \* calc[p]: the attribute .calc of the Atoms object p
    outcome,          \* how the manager call in progress ended
    failed,           \* <<record index, model position, "select" | "predict">>:
                      \* the per-item failures that have happened in the call
    adapterCall,      \* one adapter predict call: its inputs and outcome
    correctionCall,   \* one apply_mp2020_correction call: inputs and outcome
    calls,            \* the try statements the manager call has run, in order:
                      \* record index, model position and adapter, and what
                      \* the adapter was handed
    serializeCall,    \* one serialize_results call: input and outputs
    splitCall         \* one load_and_split_traj call: inputs and outcome

vars == <<pc, models, loaded, structures, prediction_type, idx, mi, result,
          unified_results, structure, results, calc, outcome, failed,
          adapterCall, correctionCall, calls, serializeCall, splitCall>>

\* the variables of the calls into serialize_results and utils/input_parser.py
utilVars == <<serializeCall, splitCall>>

-----------------------------------------------------------------------------
(* Bounds *)

\* longest model configuration list
MaxModels == 2
\* longest batch handed to predict_batch
MaxBatch == 2
\* number of distinct physical structures (Atoms objects)
NumStructs == 2
\* deepest nesting of lists and mappings in a value given to serialize_results
MaxDepth == 2
\* longest list of records given to serialize_results
MaxRecords == 1
\* most frames in a trajectory given to load_and_split_traj
MaxFrames == 3
\* raw energies handed to apply_mp2020_correction range over
\* -MaxEnergy..MaxEnergy
MaxEnergy == 5

-----------------------------------------------------------------------------
(* Python values *)

NoneValue == [type |-> "NoneType"]

EmptyDict == [k \in {} |-> NoneValue]

Put(d, k, v) == [x \in (DOMAIN d) \cup {k} |-> IF x = k THEN v ELSE d[x]]

\* Python's `sub in s` on strings: s has sub as a contiguous subsequence
Contains(sub, s) ==
    \E i \in 1..(Len(s) - Len(sub) + 1) : SubSeq(s, i, i + Len(sub) - 1) = sub

Phys == 1..NumStructs

Atoms(p) == [type |-> "Atoms", phys |-> p]

Structure(p) == [type |-> "Structure", phys |-> p]

Return(v) == [kind |-> "return", value |-> v]

Raise(t, m) == [kind |-> "raise", type |-> t, msg |-> m]

NoCall == [op |-> "none"]

-----------------------------------------------------------------------------
(* utils/energy_correction.py *)

\* what the calls into pymatgen do during one apply_mp2020_correction call
CorrectionEnvs ==
    {"ok", "compat_raises", "entry_raises", "process_raises", "process_none"}

\* the energy adjustment the MP2020 scheme gives a structure it can process
\* (zero for a composition without corrected species)
Mp2020Adjustment(p) == IF p % 2 = 1 THEN 0 - p ELSE 0

\* compatibility.process_entry(entry) when the scheme can process the entry:
\* the energy of the corrected entry
process_entry(energy, struct) == energy + Mp2020Adjustment(struct.phys)

\* lines 33-42 with the except clause left out: the failure propagates
correction_try_unguarded(energy, struct, env) ==
    IF env = "process_raises"
    THEN [out |-> Raise("CompatibilityError", <<"unsupported", "element">>),
          printed |-> <<>>]
    ELSE IF env = "process_none"
    THEN [out |-> Raise("ValueError",
                        <<"Failed", "to", "apply", "energy", "correction.">>),
          printed |-> <<>>]
    ELSE [out |-> Return(process_entry(energy, struct)), printed |-> <<>>]

\* the try statement of apply_mp2020_correction (lines 33-42)
correction_try(energy, struct, env) ==
    LET tried ==
            IF env = "process_raises"
            THEN Raise("CompatibilityError", <<"unsupported", "element">>)
            ELSE IF env = "process_none"          \* `if corrected_entry` fails
            THEN Raise("ValueError",
                       <<"Failed", "to", "apply", "energy", "correction.">>)
            ELSE Return(process_entry(energy, struct))
    IN  IF tried.kind = "raise"                   \* except Exception as e
        THEN [out |-> Return(energy),
              printed |-> <<"Error", "during", "energy", "correction:">>
                          \o tried.msg]
        ELSE [out |-> tried, printed |-> <<>>]

\* apply_mp2020_correction(energy, structure): the processor and the entry
\* are built before the try statement is entered
apply_mp2020_correction(energy, struct, env) ==
    IF env = "compat_raises"
    THEN [out |-> Raise("Exception", <<"compatibility", "processor", "failed">>),
          printed |-> <<>>]
    ELSE IF env = "entry_raises"
    THEN [out |-> Raise("Exception", <<"computed", "entry", "failed">>),
          printed |-> <<>>]
    ELSE correction_try(energy, struct, env)

-----------------------------------------------------------------------------
(* model/model_base.py, model/*_model.py, model/matter_sim.py *)

ModelNames == {"EqV2", "CHGNET", "MACE", "MatterSim"}

\* the values of prediction_type: unset (None and "" are both falsy),
\* "energy", "force" and the documented "stress"
Unset == <<>>

StrEnergy == <<"e", "n", "e", "r", "g", "y">>

StrForce == <<"f", "o", "r", "c", "e">>

StrStress == <<"s", "t", "r", "e", "s", "s">>

PredictionTypes == {Unset, StrEnergy, StrForce, StrStress}

\* energy is computed whatever prediction_type is
WantsEnergy_always(ptype) == TRUE

\* `not prediction_type or 'energy' in prediction_type`
WantsEnergy(ptype) == ptype = <<>> \/ Contains(StrEnergy, ptype)

\* `not prediction_type or 'force' in prediction_type`
WantsForces(ptype) == ptype = <<>> \/ Contains(StrForce, ptype)

\* the calculator handle an adapter loads in its constructor; id tells the
\* handles of two adapters of the same class apart
CalcHandle(name, id) == [model |-> name, id |-> id]

NoCalc == [model |-> "none", id |-> 0]

\* BaseModel.__init__ as called by each adapter's __init__
RequiredInputFormat(name) == IF name = "CHGNET" THEN "pymatgen" ELSE "ase"

NewAdapter(name, id) ==
    [model_name |-> name,
     required_input_format |-> RequiredInputFormat(name),
     calc |-> CalcHandle(name, id)]

\* what the third-party calls do during one adapter predict call
AdapterEnvs ==
    [calc : {"ok", "energy_raises", "forces_raises"},
     convert : {"ok", "raises"},
     correction : CorrectionEnvs]

ModelOrd(name) ==
    CASE name = "EqV2" -> 1
      [] name = "CHGNET" -> 2
      [] name = "MACE" -> 3
      [] name = "MatterSim" -> 4

\* the raw total energy the calculator `handle` computes for structure p
CalcEnergy(handle, p) == 10 * ModelOrd(handle.model) + p

\* the forces the calculator `handle` computes for structure p, as a list
CalcForces(handle, p) == <<"forces", handle.model, p>>

\* the energy stored is the raw energy
CorrectedEnergy_raw(raw_energy, p, env) == Return(raw_energy)

\* MACEModel.predict lines 71-77 (EqV2Model.predict 70-76, MatterSimModel
\* .predict 66-72): the lattice form is built from the structure being
\* predicted and handed to apply_mp2020_correction with the raw energy
CorrectedEnergy(raw_energy, p, env) ==
    apply_mp2020_correction(raw_energy, Structure(p), env.correction).out

\* the statements shared by MACEModel.predict (lines 61-83),
\* EqV2Model.predict (62-82) and MatterSimModel.predict (57-88): attach the
\* calculator, then fill result; the outcome is a return or the first raise
ase_predict_body(self, atoms, ptype, env) ==
    LET attached == self.calc                     \* structure.calc = self.calc
        p == atoms.phys
        corrected == CorrectedEnergy(CalcEnergy(attached, p), p, env)
        energyPart ==
            IF ~WantsEnergy(ptype) THEN Return(EmptyDict)
            ELSE IF env.calc = "energy_raises"    \* structure.get_total_energy()
            THEN Raise("Exception", <<"calculator", "failed", "on", "energy">>)
            ELSE IF env.convert = "raises"        \* Structure(lattice=...)
            THEN Raise("Exception", <<"invalid", "lattice">>)
            ELSE IF corrected.kind = "raise"
            THEN corrected
            ELSE Return(Put(EmptyDict, "energy", corrected.value))
    IN  IF energyPart.kind = "raise" THEN energyPart
        ELSE IF ~WantsForces(ptype) THEN energyPart
        ELSE IF env.calc = "forces_raises"        \* structure.get_forces()
        THEN Raise("Exception", <<"calculator", "failed", "on", "forces">>)
        ELSE Return(Put(energyPart.value, "forces", CalcForces(attached, p)))

\* `except Exception as e: raise RuntimeError(f"<NAME> prediction failed: {e}")`
WrapPredictionError(name, body) ==
    IF body.kind = "raise"
    THEN Raise("RuntimeError", <<name, "prediction", "failed:">> \o body.msg)
    ELSE body

MACEModel_predict(self, atoms, ptype, env) ==
    WrapPredictionError("MACE", ase_predict_body(self, atoms, ptype, env))

MatterSimModel_predict(self, atoms, ptype, env) ==
    WrapPredictionError("MatterSim", ase_predict_body(self, atoms, ptype, env))

\* EqV2Model.predict has no try statement
EqV2Model_predict(self, atoms, ptype, env) ==
    ase_predict_body(self, atoms, ptype, env)

\* CHGNETModel.predict: one call computes everything; no energy correction
CHGNETModel_predict(self, struct, ptype, env) ==
    LET p == struct.phys
        energyPart ==
            IF WantsEnergy(ptype)    \* sum(prediction["site_energies"])
            THEN Put(EmptyDict, "energy", CalcEnergy(self.calc, p))
            ELSE EmptyDict
        body ==
            IF env.calc # "ok"       \* self.model.predict_structure(...)
            THEN Raise("Exception", <<"calculator", "failed">>)
            ELSE IF WantsForces(ptype)
            THEN Return(Put(energyPart, "forces", CalcForces(self.calc, p)))
            ELSE Return(energyPart)
    IN  WrapPredictionError("CHGNET", body)

\* model.predict(structure, prediction_type): dispatch on the adapter's class
AdapterPredict(self, struct, ptype, env) ==
    CASE self.model_name = "MACE" -> MACEModel_predict(self, struct, ptype, env)
      [] self.model_name = "EqV2" -> EqV2Model_predict(self, struct, ptype, env)
      [] self.model_name = "MatterSim" ->
            MatterSimModel_predict(self, struct, ptype, env)
      [] self.model_name = "CHGNET" ->
            CHGNETModel_predict(self, struct, ptype, env)

\* predict without its first statement: nothing is attached
CalcAfterPredict_unattached(c, self, struct) == c

\* the side effect of predict on the Atoms object: structure.calc = self.calc
\* is the first statement of the three ASE adapters; CHGNET attaches nothing
CalcAfterPredict(c, self, struct) ==
    IF self.required_input_format = "ase" /\ struct.type = "Atoms"
    THEN [c EXCEPT ![struct.phys] = self.calc]
    ELSE c

\* `{"index": idx, **result}`
WithIndex(i, res) == Put(res, "index", i)

\* `{"index": idx, "error": str(e)}`
IndexedError(i, e) == Put(Put(EmptyDict, "index", i), "error", e.msg)

\* the try statement of an adapter's predict_batch with the except clause
\* left out: the failure ends the loop
predict_batch_try_uncaught(i, body) ==
    IF body.kind = "raise" THEN body ELSE Return(WithIndex(i, body.value))

\* the try statement of an adapter's predict_batch (MACEModel lines 105-115):
\* body is what the try block computed up to the append, or its first raise;
\* the value is the entry appended to results
predict_batch_try(i, body) ==
    IF body.kind = "raise" THEN Return(IndexedError(i, body))
    ELSE Return(WithIndex(i, body.value))

\* one iteration of MACEModel.predict_batch: self.predict(structure), with
\* prediction_type left at its default None
MACEModel_predict_batch_step(self, i, atoms, env) ==
    predict_batch_try(i, MACEModel_predict(self, atoms, Unset, env))

MatterSimModel_predict_batch_step(self, i, atoms, env) ==
    predict_batch_try(i, MatterSimModel_predict(self, atoms, Unset, env))

\* one iteration of EqV2Model.predict_batch: the entry is built from
\* result["energy"] and result["forces"]
EqV2Model_predict_batch_step(self, i, atoms, env) ==
    LET predicted == EqV2Model_predict(self, atoms, Unset, env)
        body ==
            IF predicted.kind = "raise" THEN predicted
            ELSE IF "energy" \notin DOMAIN predicted.value
            THEN Raise("KeyError", <<"'energy'">>)
            ELSE IF "forces" \notin DOMAIN predicted.value
            THEN Raise("KeyError", <<"'forces'">>)
            ELSE Return([k \in {"energy", "forces"} |-> predicted.value[k]])
    IN  predict_batch_try(i, body)

\* one iteration of CHGNETModel.predict_batch. The class body defines
\* predict_batch twice and the second definition (lines 98-125) is the one
\* bound: its try block evaluates the name return_site_energies, which is
\* neither a local nor a global, before self.model.predict_structure is
\* called, and self.predict is not called at all
CHGNETModel_predict_batch_step(self, i, struct, env) ==
    predict_batch_try(i,
        Raise("NameError",
              <<"name", "'return_site_energies'", "is", "not", "defined">>))

\* model.predict_batch(structures): one iteration, by the adapter's class
AdapterPredictBatchStep(self, i, struct, env) ==
    CASE self.model_name = "MACE" ->
            MACEModel_predict_batch_step(self, i, struct, env)
      [] self.model_name = "EqV2" ->
            EqV2Model_predict_batch_step(self, i, struct, env)
      [] self.model_name = "MatterSim" ->
            MatterSimModel_predict_batch_step(self, i, struct, env)
      [] self.model_name = "CHGNET" ->
            CHGNETModel_predict_batch_step(self, i, struct, env)

\* the side effect of one iteration on the Atoms object: the three ASE
\* adapters call self.predict, CHGNETModel.predict_batch touches nothing
CalcAfterBatchStep(c, self, struct) == CalcAfterPredict(c, self, struct)

-----------------------------------------------------------------------------
(* model/ensembled_output.py: ModelManager *)

\* `key in x`: x is a dict, or (after predict has rebound its parameter) an
\* Atoms or Structure object, whose members are atoms or sites, never a str
KeyIn(key, x) == IF "type" \in DOMAIN x THEN FALSE ELSE key \in DOMAIN x

NotAvailable(what, name) ==
    Raise("ValueError", what \o <<"not", "available", "for", "model", name, ".">>)

_get_structure_for_model(structure_data, model) ==
    LET required_format == model.required_input_format
    IN  IF required_format = "ase"
        THEN IF ~KeyIn("ase_atoms", structure_data)
                \/ structure_data["ase_atoms"] = NoneValue
             THEN NotAvailable(<<"ASE", "Atoms">>, model.model_name)
             ELSE Return(structure_data["ase_atoms"])
        ELSE IF required_format = "pymatgen"
        THEN IF ~KeyIn("pymatgen_structure", structure_data)
                \/ structure_data["pymatgen_structure"] = NoneValue
             THEN NotAvailable(<<"Pymatgen", "Structure">>, model.model_name)
             ELSE Return(structure_data["pymatgen_structure"])
        ELSE Raise("ValueError",
                   <<"Unsupported", "input", "format", "for", "model",
                     model.model_name, ":", required_format>>)

\* the loop of _initialize_models with each adapter put in front of the list
RECURSIVE initialize_from_prepend(_, _, _)
initialize_from_prepend(model_configs, i, built) ==
    IF i > Len(model_configs)
    THEN [out |-> Return(built), loaded |-> built]
    ELSE IF model_configs[i].name \in ModelNames
    THEN initialize_from_prepend(
             model_configs, i + 1,
             <<NewAdapter(model_configs[i].name, i)>> \o built)
    ELSE [out |-> Raise("ValueError", <<"Unsupported", "model", "name:",
                                        model_configs[i].name>>),
          loaded |-> built]

\* _initialize_models from entry i on, with the adapters built so far
RECURSIVE initialize_from(_, _, _)
initialize_from(model_configs, i, built) ==
    IF i > Len(model_configs)
    THEN [out |-> Return(built), loaded |-> built]
    ELSE IF model_configs[i].name \in ModelNames
    THEN initialize_from(model_configs, i + 1,
                         Append(built, NewAdapter(model_configs[i].name, i)))
    ELSE [out |-> Raise("ValueError", <<"Unsupported", "model", "name:",
                                        model_configs[i].name>>),
          loaded |-> built]

_initialize_models(model_configs) == initialize_from(model_configs, 1, <<>>)

\* `{"error": str(e)}`
ErrorEntry(e) == Put(EmptyDict, "error", e.msg)

\* what the try block of predict (lines 88-89) and of predict_batch (lines
\* 109-110) evaluates for one model: the prediction, or the first raise
TryBody(selected, model, ptype, env) ==
    IF selected.kind = "raise" THEN selected
    ELSE AdapterPredict(model, selected.value, ptype, env)

\* the try statement with its except clause left out
TryExcept_uncaught(d, selected, model, ptype, env) ==
    LET body == TryBody(selected, model, ptype, env)
    IN  IF body.kind = "raise" THEN body
        ELSE Return(Put(d, model.model_name, body.value))

\* the try statement with an except clause that stores nothing
TryExcept_skip(d, selected, model, ptype, env) ==
    LET body == TryBody(selected, model, ptype, env)
    IN  IF body.kind = "raise" THEN Return(d)
        ELSE Return(Put(d, model.model_name, body.value))

\* the try statement of predict (lines 87-91) and predict_batch (lines
\* 108-112) on the dict d: `except Exception` stores {"error": str(e)}
TryExcept(d, selected, model, ptype, env) ==
    LET body == TryBody(selected, model, ptype, env)
    IN  IF body.kind = "raise"
        THEN Return(Put(d, model.model_name, ErrorEntry(body)))
        ELSE Return(Put(d, model.model_name, body.value))

\* the per-item failure of one try statement, if any
FailureOf(i, m, selected, model, ptype, env) ==
    IF selected.kind = "raise" THEN {<<i, m, "select">>}
    ELSE IF AdapterPredict(model, selected.value, ptype, env).kind = "raise"
    THEN {<<i, m, "predict">>}
    ELSE {}

\* one run of the try statement for record i and the model at position m:
\* whether model.predict was reached, the structure it was handed, and the
\* calculator on that structure while the adapter read from it (c is .calc
\* of every Atoms object once the adapter has attached its own)
CallEntry(i, m, model, selected, c) ==
    [index |-> i,
     position |-> m,
     model |-> model,
     called |-> selected.kind = "return",
     structure |-> IF selected.kind = "return" THEN selected.value
                   ELSE NoneValue,
     reads |-> IF selected.kind = "return" /\ selected.value.type = "Atoms"
               THEN c[selected.value.phys]
               ELSE NoCalc]

\* ase: atoms.get_chemical_formula('reduce')
ChemicalFormula(atoms) == <<"formula", atoms.phys>>

\* line 106: `{"index": idx, "structure": structure["ase_atoms"]....}`
NewResult(i, record) ==
    IF "ase_atoms" \notin DOMAIN record
    THEN Raise("KeyError", <<"'ase_atoms'">>)
    ELSE IF record["ase_atoms"] = NoneValue
    THEN Raise("AttributeError",
               <<"'NoneType'", "object", "has", "no", "attribute",
                 "'get_chemical_formula'">>)
    ELSE Return([k \in {"index", "structure"} |->
                    IF k = "index" THEN i
                    ELSE ChemicalFormula(record["ase_atoms"])])

-----------------------------------------------------------------------------
(* model/ensembled_output.py: ModelManager.serialize_results *)

\* The values a record may hold carry their Python type: float, int and str
\* are plain, np.float32/np.float64/np.int32/np.int64 are numpy scalars,
\* ndarray is a numeric array, list and dict are the containers.
PyFloat(v) == [type |-> "float", val |-> v]

PyInt(v) == [type |-> "int", val |-> v]

PyStr(s) == [type |-> "str", val |-> s]

NpScalar(tp, v) == [type |-> tp, val |-> v]

NdArray(xs) == [type |-> "ndarray", val |-> xs]

PyList(xs) == [type |-> "list", val |-> xs]

PyDict(d) == [type |-> "dict", val |-> d]

\* value.tolist() of a one-dimensional array of a float dtype
tolist(value) ==
    PyList([j \in 1..Len(value.val) |-> PyFloat(value.val[j])])

\* float(value)
plain_float(value) == PyFloat(value.val)

\* the integer wrapper is turned into a double-precision wrapper
plain_int_as_float64(value) == NpScalar("np.float64", value.val)

\* int(value)
plain_int(value) == PyInt(value.val)

\* serialize_results(results): the isinstance chain of lines 125-134 on
\* every value of every record; a dict is serialized by the call
\* serialize_results([value])[0]; a list is none of the four cases
RECURSIVE serialize_results(_)
serialize_results(rs) ==
    [i \in 1..Len(rs) |->
        [key \in DOMAIN rs[i] |->
            LET value == rs[i][key]
            IN  IF value.type = "ndarray" THEN tolist(value)
                ELSE IF value.type \in {"np.float32", "np.float64"}
                THEN plain_float(value)
                ELSE IF value.type \in {"np.int32", "np.int64"}
                THEN plain_int(value)
                ELSE IF value.type = "dict"
                THEN PyDict(serialize_results(<<value.val>>)[1])
                ELSE value]]

-----------------------------------------------------------------------------
(* utils/input_parser.py: load_and_split_traj *)

\* the orders random_state may shuffle n samples into
Shuffles(n) ==
    {s \in [1..n -> 1..n] : \A a, b \in 1..n : s[a] = s[b] => a = b}

\* sklearn's train_test_split(arr, test_size=..., random_state=...), with
\* test_size a fraction given in percent and perm the shuffle the seed
\* gives: n_test = ceil(test_size * n), n_train = n - n_test, the test set is
\* the first n_test samples of the shuffle and the train set the rest; an
\* empty train set is refused
train_test_split(arr, test_size, perm) ==
    LET n == Len(arr)
        n_test == (n * test_size + 99) \div 100
        n_train == n - n_test
    IN  IF n_train = 0
        THEN Raise("ValueError",
                   <<"the", "resulting", "train", "set", "will", "be", "empty">>)
        ELSE Return([train |-> [j \in 1..n_train |-> arr[perm[n_test + j]]],
                     test |-> [j \in 1..n_test |-> arr[perm[j]]]])

\* lines 206-225: one entry of data per frame of the trajectory; a frame
\* whose conversion raises gets pymatgen_structure None
LoadData(traj, unconvertible) ==
    [j \in 1..Len(traj) |->
        [ase_atoms |-> Atoms(traj[j]),
         pymatgen_structure |-> IF traj[j] \in unconvertible THEN NoneValue
                                ELSE Structure(traj[j]),
         total_energy |-> traj[j],
         force |-> <<"force", traj[j]>>,
         stress |-> <<"stress", traj[j]>>]]

\* load_and_split_traj(traj_file, output_dir, test_size, random_state):
\* labelled tells whether the frames carry the energies, forces and
\* stresses that lines 222-224 read
load_and_split_traj(traj, test_size, perm, unconvertible, labelled) ==
    LET data == LoadData(traj, unconvertible)
        split == train_test_split(data, test_size, perm)
    IN  IF Len(traj) > 0 /\ ~labelled
        THEN Raise("RuntimeError",
                   <<"Atoms", "object", "has", "no", "calculator.">>)
        ELSE IF split.kind = "raise" THEN split
        ELSE Return([k \in {"train", "test"} |->
                        IF k = "train" THEN split.value.train ELSE data])

-----------------------------------------------------------------------------
(* Inputs *)

RECURSIVE SeqsUpTo(_, _)
SeqsUpTo(S, n) ==
    IF n = 0 THEN {<<>>}
    ELSE LET shorter == SeqsUpTo(S, n - 1)
         IN  shorter \cup {Append(s, x) : s \in shorter, x \in S}

\* model configuration lists; "Unknown" is an unrecognized name
ModelConfigs == SeqsUpTo([name : ModelNames \cup {"Unknown"}], MaxModels)

\* structure records: at least one representation is present, and two
\* present representations are of the same physical structure
StructureRecords ==
    UNION {{[k \in {"ase_atoms", "pymatgen_structure"} |->
                IF k = "ase_atoms" THEN Atoms(p) ELSE Structure(p)],
            [k \in {"ase_atoms", "pymatgen_structure"} |->
                IF k = "ase_atoms" THEN Atoms(p) ELSE NoneValue],
            [k \in {"ase_atoms", "pymatgen_structure"} |->
                IF k = "ase_atoms" THEN NoneValue ELSE Structure(p)],
            [k \in {"ase_atoms"} |-> Atoms(p)],
            [k \in {"pymatgen_structure"} |-> Structure(p)]} : p \in Phys}

Batches == SeqsUpTo(StructureRecords, MaxBatch)

\* the values without parts: plain ones, numpy scalars, a numeric array
LeafValues ==
    {PyFloat(1), PyStr("x"), NpScalar("np.float32", 1),
     NpScalar("np.float64", 1), NpScalar("np.int32", 1),
     NpScalar("np.int64", 1), NdArray(<<1, 2>>)}

\* the values nested at most d deep in lists and mappings
RECURSIVE ValuesUpTo(_)
ValuesUpTo(d) ==
    IF d = 0 THEN LeafValues
    ELSE LET inner == ValuesUpTo(d - 1)
         IN  inner \cup {PyList(<<v>>) : v \in inner}
                   \cup {PyDict([k \in {"energy"} |-> v]) : v \in inner}

\* result records: one model key holding any value, or two holding leaves
ResultRecords ==
    [{"MACE"} -> ValuesUpTo(MaxDepth)] \cup [{"MACE", "CHGNET"} -> LeafValues]

\* test_size in percent: the default 0.2 and an even split
TestSizes == {20, 50}

\* the environments the manager's runs are explored under
ManagerEnvs ==
    [calc : {"ok", "energy_raises", "forces_raises"},
     convert : {"ok"},
     correction : {"ok", "process_none", "entry_raises"}]

-----------------------------------------------------------------------------
(* The operations *)

Init ==
    /\ pc = "new"
    /\ models = <<>>
    /\ loaded = <<>>
    /\ structures = <<>>
    /\ prediction_type = Unset
    /\ idx = 0
    /\ mi = 0
    /\ result = EmptyDict
    /\ unified_results = <<>>
    /\ structure = NoneValue
    /\ results = EmptyDict
    /\ outcome = NoCall
    /\ failed = {}
    /\ calc = [p \in Phys |-> NoCalc]
    /\ adapterCall = NoCall
    /\ correctionCall = NoCall
    /\ calls = <<>>
    /\ serializeCall = NoCall
    /\ splitCall = NoCall

\* apply_mp2020_correction(energy, structure) is called on its own
CallCorrection ==
    /\ pc = "new"
    /\ \E energy \in (0 - MaxEnergy)..MaxEnergy, p \in Phys,
          env \in CorrectionEnvs :
          correctionCall' =
              [op |-> "apply_mp2020_correction", energy |-> energy,
               structure |-> Structure(p), env |-> env,
               done |-> apply_mp2020_correction(energy, Structure(p), env)]
    /\ pc' = "correction_done"
    /\ UNCHANGED <<models, loaded, structures, prediction_type, idx, mi,
                   result, unified_results, structure, results, calc, outcome,
                   failed, adapterCall,
                   calls, utilVars>>

\* adapter.predict(structure, prediction_type) is called on an adapter of
\* class `name`, with a structure in the adapter's required format
AdapterPredictCall(name) ==
    /\ pc = "new"
    /\ \E p \in Phys, ptype \in PredictionTypes, env \in AdapterEnvs :
          LET self == NewAdapter(name, 1)
              struct == IF self.required_input_format = "ase" THEN Atoms(p)
                        ELSE Structure(p)
          IN  /\ adapterCall' =
                     [op |-> "predict", self |-> self, structure |-> struct,
                      prediction_type |-> ptype, env |-> env,
                      out |-> AdapterPredict(self, struct, ptype, env)]
              /\ calc' = CalcAfterPredict(calc, self, struct)
    /\ pc' = "adapter_done"
    /\ UNCHANGED <<models, loaded, structures, prediction_type, idx, mi,
                   result, unified_results, structure, results, outcome,
                   failed, correctionCall,
                   calls, utilVars>>

MACEPredict == AdapterPredictCall("MACE")

EqV2Predict == AdapterPredictCall("EqV2")

CHGNETPredict == AdapterPredictCall("CHGNET")

MatterSimPredict == AdapterPredictCall("MatterSim")

\* adapter.predict_batch(structures) is called on an adapter of class `name`,
\* with structures in the adapter's required format
AdapterPredictBatchCall(name) ==
    /\ pc = "new"
    /\ \E batch \in SeqsUpTo(Phys, MaxBatch) :
          LET self == NewAdapter(name, 1)
          IN  adapterCall' =
                  [op |-> "predict_batch", self |-> self,
                   structures |->
                       [k \in 1..Len(batch) |->
                           IF self.required_input_format = "ase"
                           THEN Atoms(batch[k]) ELSE Structure(batch[k])],
                   envs |-> <<>>, results |-> <<>>]
    /\ pc' = "adapter_batch"
    /\ UNCHANGED <<models, loaded, structures, prediction_type, idx, mi,
                   result, unified_results, structure, results, calc, outcome,
                   failed, correctionCall, calls, utilVars>>

MACEPredictBatch == AdapterPredictBatchCall("MACE")

EqV2PredictBatch == AdapterPredictBatchCall("EqV2")

CHGNETPredictBatch == AdapterPredictBatchCall("CHGNET")

MatterSimPredictBatch == AdapterPredictBatchCall("MatterSim")

\* one iteration of `for idx, structure in enumerate(structures)` of the
\* adapter's predict_batch; env is what the third-party calls do in it
AdapterBatchStep ==
    /\ pc = "adapter_batch"
    /\ Len(adapterCall.results) < Len(adapterCall.structures)
    /\ \E env \in ManagerEnvs :
          LET i == Len(adapterCall.results)
              self == adapterCall.self
              struct == adapterCall.structures[i + 1]
              tried == AdapterPredictBatchStep(self, i, struct, env)
          IN  /\ IF tried.kind = "raise"
                 THEN /\ pc' = "adapter_batch_raised"
                      /\ adapterCall' =
                             [adapterCall EXCEPT !.envs = Append(@, env)]
                      /\ outcome' = tried
                 ELSE /\ pc' = pc
                      /\ adapterCall' =
                             [adapterCall EXCEPT
                                 !.envs = Append(@, env),
                                 !.results = Append(@, tried.value)]
                      /\ outcome' = outcome
              /\ calc' = CalcAfterBatchStep(calc, self, struct)
    /\ UNCHANGED <<models, loaded, structures, prediction_type, idx, mi,
                   result, unified_results, structure, results, failed,
                   correctionCall, calls, utilVars>>

\* `return results` of the adapter's predict_batch
AdapterBatchReturn ==
    /\ pc = "adapter_batch"
    /\ Len(adapterCall.results) = Len(adapterCall.structures)
    /\ outcome' = Return(adapterCall.results)
    /\ pc' = "adapter_batch_returned"
    /\ UNCHANGED <<models, loaded, structures, prediction_type, idx, mi,
                   result, unified_results, structure, results, calc, failed,
                   adapterCall, correctionCall, calls, utilVars>>

\* ModelManager.serialize_results(results) is called
SerializeCall ==
    /\ pc = "new"
    /\ \E rs \in SeqsUpTo(ResultRecords, MaxRecords) :
          serializeCall' = [op |-> "serialize_results", results |-> rs,
                            out |-> serialize_results(rs), again |-> <<>>]
    /\ pc' = "serialized"
    /\ UNCHANGED <<models, loaded, structures, prediction_type, idx, mi,
                   result, unified_results, structure, results, calc, outcome,
                   failed, adapterCall, correctionCall, calls, splitCall>>

\* ModelManager.serialize_results is called on the list it returned
SerializeAgain ==
    /\ pc = "serialized"
    /\ serializeCall' =
           [serializeCall EXCEPT !.again = serialize_results(serializeCall.out)]
    /\ pc' = "serialized_twice"
    /\ UNCHANGED <<models, loaded, structures, prediction_type, idx, mi,
                   result, unified_results, structure, results, calc, outcome,
                   failed, adapterCall, correctionCall, calls, splitCall>>

\* load_and_split_traj is called on a trajectory of n frames
SplitCall ==
    /\ pc = "new"
    /\ \E n \in 0..MaxFrames :
          \E test_size \in TestSizes, perm \in Shuffles(n),
             unconvertible \in SUBSET (1..n), labelled \in BOOLEAN :
             LET traj == [j \in 1..n |-> j]
             IN  splitCall' =
                     [op |-> "load_and_split_traj", traj |-> traj,
                      test_size |-> test_size, perm |-> perm,
                      out |-> load_and_split_traj(traj, test_size, perm,
                                                  unconvertible, labelled)]
    /\ pc' = "split_done"
    /\ UNCHANGED <<models, loaded, structures, prediction_type, idx, mi,
                   result, unified_results, structure, results, calc, outcome,
                   failed, adapterCall, correctionCall, calls, serializeCall>>

\* ModelManager(model_configs)
Construct ==
    /\ pc = "new"
    /\ \E model_configs \in ModelConfigs :
          LET built == _initialize_models(model_configs)
          IN  /\ loaded' = built.loaded
              /\ IF built.out.kind = "return"
                 THEN /\ models' = built.out.value
                      /\ pc' = "ready"
                      /\ outcome' = outcome
                 ELSE /\ models' = models
                      /\ pc' = "config_error"
                      /\ outcome' = built.out
    /\ UNCHANGED <<structures, prediction_type, idx, mi, result,
                   unified_results, structure, results, calc, failed,
                   adapterCall, correctionCall,
                   calls, utilVars>>

\* manager.predict_batch(structures, prediction_type) is called
CallPredictBatch ==
    /\ pc = "ready"
    /\ \E batch \in Batches, ptype \in PredictionTypes :
          /\ structures' = batch
          /\ prediction_type' = ptype
    /\ unified_results' = <<>>
    /\ idx' = 0
    /\ pc' = "batch_for"
    /\ UNCHANGED <<models, loaded, mi, result, structure, results, calc,
                   outcome, failed, adapterCall, correctionCall,
                   calls, utilVars>>

\* lines 105-106: the next record is taken and its result started
BatchRecord ==
    /\ pc = "batch_for"
    /\ idx < Len(structures)
    /\ LET started == NewResult(idx, structures[idx + 1])
       IN  IF started.kind = "raise"
           THEN /\ pc' = "batch_raised"
                /\ outcome' = started
                /\ UNCHANGED <<result, mi>>
           ELSE /\ pc' = "batch_models"
                /\ result' = started.value
                /\ mi' = 0
                /\ UNCHANGED outcome
    /\ UNCHANGED <<models, loaded, structures, prediction_type, idx,
                   unified_results, structure, results, calc, failed,
                   adapterCall, correctionCall,
                   calls, utilVars>>

\* lines 107-112: one iteration of `for model in self.models`
BatchModel ==
    /\ pc = "batch_models"
    /\ mi < Len(models)
    /\ LET model == models[mi + 1]
           selected == _get_structure_for_model(structures[idx + 1], model)
       IN  \E env \in ManagerEnvs :
              LET tried == TryExcept(result, selected, model, prediction_type,
                                     env)
              IN  /\ IF tried.kind = "raise"
                     THEN /\ pc' = "batch_raised"
                          /\ outcome' = tried
                          /\ UNCHANGED <<result, mi>>
                     ELSE /\ result' = tried.value
                          /\ mi' = mi + 1
                          /\ UNCHANGED <<pc, outcome>>
                  /\ calc' = IF selected.kind = "return"
                             THEN CalcAfterPredict(calc, model, selected.value)
                             ELSE calc
                  /\ failed' = failed \cup FailureOf(idx, mi + 1, selected,
                                                     model, prediction_type, env)
                  /\ calls' = Append(calls, CallEntry(idx, mi + 1, model,
                                                      selected, calc'))
    /\ UNCHANGED <<models, loaded, structures, prediction_type, idx,
                   unified_results, structure, results, adapterCall,
                   correctionCall,
                   utilVars>>

\* line 113: unified_results.append(result)
BatchAppend ==
    /\ pc = "batch_models"
    /\ mi = Len(models)
    /\ unified_results' = Append(unified_results, result)
    /\ idx' = idx + 1
    /\ pc' = "batch_for"
    /\ UNCHANGED <<models, loaded, structures, prediction_type, mi, result,
                   structure, results, calc, outcome, failed, adapterCall,
                   correctionCall,
                   calls, utilVars>>

\* line 114: return unified_results
BatchReturn ==
    /\ pc = "batch_for"
    /\ idx = Len(structures)
    /\ outcome' = Return(unified_results)
    /\ pc' = "batch_returned"
    /\ UNCHANGED <<models, loaded, structures, prediction_type, idx, mi,
                   result, unified_results, structure, results, calc, failed,
                   adapterCall, correctionCall,
                   calls, utilVars>>

\* manager.predict(structure, prediction_type) is called
CallPredict ==
    /\ pc = "ready"
    /\ \E record \in StructureRecords, ptype \in PredictionTypes :
          /\ structure' = record
          /\ structures' = <<record>>
          /\ prediction_type' = ptype
    /\ results' = EmptyDict
    /\ mi' = 0
    /\ pc' = "predict_models"
    /\ UNCHANGED <<models, loaded, idx, result, unified_results, calc,
                   outcome, failed, adapterCall, correctionCall,
                   calls, utilVars>>

\* lines 86-91: one iteration of `for model in self.models`; line 88 rebinds
\* the local structure to the selected representation
PredictModel ==
    /\ pc = "predict_models"
    /\ mi < Len(models)
    /\ LET model == models[mi + 1]
           selected == _get_structure_for_model(structure, model)
       IN  /\ structure' = IF selected.kind = "return" THEN selected.value
                           ELSE structure
           /\ \E env \in ManagerEnvs :
                 LET tried == TryExcept(results, selected, model,
                                        prediction_type, env)
                 IN  /\ IF tried.kind = "raise"
                        THEN /\ pc' = "predict_raised"
                             /\ outcome' = tried
                             /\ UNCHANGED <<results, mi>>
                        ELSE /\ results' = tried.value
                             /\ mi' = mi + 1
                             /\ UNCHANGED <<pc, outcome>>
                     /\ calc' = IF selected.kind = "return"
                                THEN CalcAfterPredict(calc, model,
                                                      selected.value)
                                ELSE calc
                     /\ failed' = failed \cup FailureOf(0, mi + 1, selected,
                                                        model, prediction_type,
                                                        env)
                     /\ calls' = Append(calls, CallEntry(0, mi + 1, model,
                                                         selected, calc'))
    /\ UNCHANGED <<models, loaded, structures, prediction_type, idx, result,
                   unified_results, adapterCall, correctionCall,
                   utilVars>>

\* line 92: return results
PredictReturn ==
    /\ pc = "predict_models"
    /\ mi = Len(models)
    /\ outcome' = Return(results)
    /\ pc' = "predict_returned"
    /\ UNCHANGED <<models, loaded, structures, prediction_type, idx, mi,
                   result, unified_results, structure, results, calc, failed,
                   adapterCall, correctionCall,
                   calls, utilVars>>

Next ==
    \/ CallCorrection
    \/ MACEPredict
    \/ EqV2Predict
    \/ CHGNETPredict
    \/ MatterSimPredict
    \/ MACEPredictBatch
    \/ EqV2PredictBatch
    \/ CHGNETPredictBatch
    \/ MatterSimPredictBatch
    \/ AdapterBatchStep
    \/ AdapterBatchReturn
    \/ SerializeCall
    \/ SerializeAgain
    \/ SplitCall
    \/ Construct
    \/ CallPredictBatch
    \/ BatchRecord
    \/ BatchModel
    \/ BatchAppend
    \/ BatchReturn
    \/ CallPredict
    \/ PredictModel
    \/ PredictReturn

Spec == Init /\ [][Next]_vars

\* the adapters' predict on their own, under every environment
NextAdapter ==
    \/ MACEPredict
    \/ EqV2Predict
    \/ CHGNETPredict
    \/ MatterSimPredict

SpecAdapter == Init /\ [][NextAdapter]_vars

\* the adapters' predict_batch on their own
NextAdapterBatch ==
    \/ MACEPredictBatch
    \/ EqV2PredictBatch
    \/ CHGNETPredictBatch
    \/ MatterSimPredictBatch
    \/ AdapterBatchStep
    \/ AdapterBatchReturn

SpecAdapterBatch == Init /\ [][NextAdapterBatch]_vars

\* serialize_results on its own
NextSerialize ==
    \/ SerializeCall
    \/ SerializeAgain

SpecSerialize == Init /\ [][NextSerialize]_vars

\* load_and_split_traj on its own
NextSplit == SplitCall

SpecSplit == Init /\ [][NextSplit]_vars

\* ModelManager construction followed by one single-structure predict
NextPredict ==
    \/ Construct
    \/ CallPredict
    \/ PredictModel
    \/ PredictReturn

SpecPredict == Init /\ [][NextPredict]_vars

\* apply_mp2020_correction on its own
NextCorrection == CallCorrection

SpecCorrection == Init /\ [][NextCorrection]_vars

-----------------------------------------------------------------------------
(* Properties *)

ConfiguredNames == {models[m].model_name : m \in 1..Len(models)}

\* the adapter at position m is the last one of its name: its entry is the
\* one a record keeps under that name
Owner(m) ==
    \A m2 \in (m + 1)..Len(models) :
        models[m2].model_name # models[m].model_name

FailedAt(i, m) == \E kind \in {"select", "predict"} : <<i, m, kind>> \in failed

IsErrorEntry(e) == DOMAIN e = {"error"}

IsSuccessEntry(e) == DOMAIN e \subseteq {"energy", "forces"}

LacksAtoms(record) ==
    \/ "ase_atoms" \notin DOMAIN record
    \/ record["ase_atoms"] = NoneValue

BatchEnded == pc \in {"batch_returned", "batch_raised"}

\* C1: when predict_batch has ended, whatever the per-item failures (a
\* predict raising, a record lacking a representation), it has returned a
\* list with one record per input record, in input order, and the record at
\* position k carries index k.
C1_OneRecordPerInput ==
    BatchEnded =>
        /\ outcome.kind = "return"
        /\ Len(outcome.value) = Len(structures)
        /\ \A k \in 1..Len(structures) :
              /\ outcome.value[k]["index"] = k - 1
              /\ ~LacksAtoms(structures[k]) =>
                    outcome.value[k]["structure"] =
                        ChemicalFormula(structures[k]["ase_atoms"])

\* C2: isolation law. When predict_batch has ended and model A's predict
\* raised on structure i, the batch was not aborted: all records are
\* returned, record i holds an error entry under A's name, and every entry
\* (of record i or of any other record) whose model did not fail is a
\* normal result.
C2_IsolationLaw ==
    BatchEnded =>
        \A f \in failed :
            (f[3] = "predict" /\ Owner(f[2])) =>
                /\ outcome.kind = "return"
                /\ Len(outcome.value) = Len(structures)
                /\ IsErrorEntry(outcome.value[f[1] + 1][models[f[2]].model_name])
                /\ \A j \in 1..Len(structures), m \in 1..Len(models) :
                      (Owner(m) /\ ~FailedAt(j - 1, m)) =>
                          LET e == outcome.value[j][models[m].model_name]
                          IN  "error" \notin DOMAIN e /\ IsSuccessEntry(e)

\* C3: every record predict_batch has built, and so every record it
\* returns, has exactly the keys index, structure and one key per configured
\* model name, each model key holding a success result or an error result,
\* also when every configured model failed on that structure.
C3_KeyPerModel ==
    /\ \A k \in 1..Len(unified_results) :
          /\ DOMAIN unified_results[k] =
                 {"index", "structure"} \cup ConfiguredNames
          /\ \A name \in ConfiguredNames :
                \/ IsErrorEntry(unified_results[k][name])
                \/ IsSuccessEntry(unified_results[k][name])
    /\ pc = "batch_returned" => outcome = Return(unified_results)

\* C3 witness: a batch has returned a record of a two-model ensemble in
\* which every model failed, and the record has both model keys.
C3_Witness ==
    /\ pc = "batch_returned"
    /\ Cardinality(ConfiguredNames) = 2
    /\ \E k \in 1..Len(outcome.value) :
          /\ \A m \in 1..Len(models) : <<k - 1, m, "predict">> \in failed
          /\ \A name \in ConfiguredNames : IsErrorEntry(outcome.value[k][name])

\* C4: when predict_batch has ended on a batch with a record whose
\* ase_atoms is absent or None, the batch was completed, and in that record
\* each model requiring the atoms format has an error entry whose message
\* contains 'not available' while each model requiring the other format
\* has its normal result.
C4_MissingAtomsContained ==
    BatchEnded =>
        \A k \in 1..Len(structures) :
            LacksAtoms(structures[k]) =>
                /\ outcome.kind = "return"
                /\ Len(outcome.value) = Len(structures)
                /\ \A m \in 1..Len(models) :
                      Owner(m) =>
                          LET e == outcome.value[k][models[m].model_name]
                          IN  IF models[m].required_input_format = "ase"
                              THEN /\ IsErrorEntry(e)
                                   /\ Contains(<<"not", "available">>,
                                               e["error"])
                              ELSE ~FailedAt(k - 1, m) => IsSuccessEntry(e)

\* C5: ModelManager.predict never ends by raising; when it has returned,
\* the mapping has exactly the configured model names as keys, and the
\* entry under a name is an error entry exactly when that model failed
\* (in representation selection or in the adapter's predict).
C5_PredictContainsFailures ==
    /\ pc # "predict_raised"
    /\ pc = "predict_returned" =>
          /\ outcome.kind = "return"
          /\ DOMAIN outcome.value = ConfiguredNames
          /\ \A m \in 1..Len(models) :
                Owner(m) =>
                    LET e == outcome.value[models[m].model_name]
                    IN  IF FailedAt(0, m) THEN IsErrorEntry(e)
                        ELSE "error" \notin DOMAIN e /\ IsSuccessEntry(e)

\* C5 witness: predict has returned for a two-model ensemble in which one
\* model failed in its adapter's predict and the other in representation
\* selection (total failure), and both names are keys.
C5_Witness ==
    /\ pc = "predict_returned"
    /\ Cardinality(ConfiguredNames) = 2
    /\ \E m1, m2 \in 1..Len(models) :
          /\ <<0, m1, "predict">> \in failed
          /\ <<0, m2, "select">> \in failed
    /\ \A name \in ConfiguredNames : IsErrorEntry(outcome.value[name])

AdapterReturned ==
    /\ adapterCall.op = "predict"
    /\ adapterCall.out.kind = "return"

\* the raw total energy of the model for the structure of the adapter call
RawEnergyOfCall ==
    CalcEnergy(adapterCall.self.calc, adapterCall.structure.phys)

\* the energy is the corrected one, and the raw one only when the scheme
\* failed to process the entry
EnergyIsCorrected ==
    LET energy == adapterCall.out.value["energy"]
        correction == adapterCall.env.correction
    IN  /\ correction = "ok" =>
              energy = process_entry(RawEnergyOfCall,
                                     Structure(adapterCall.structure.phys))
        /\ correction \in {"process_raises", "process_none"} =>
              energy = RawEnergyOfCall

KeysFor(ptype) ==
    IF ptype = StrEnergy THEN {"energy"}
    ELSE IF ptype = StrForce THEN {"forces"}
    ELSE {"energy", "forces"}

\* C7: with prediction_type "energy" a successful per-model result has
\* the key energy and no forces, with "force" forces and no energy, unset
\* both; for every adapter's predict and for every record of predict_batch.
C7_FilterDecidesKeys ==
    /\ (AdapterReturned
        /\ adapterCall.prediction_type \in {Unset, StrEnergy, StrForce}) =>
          DOMAIN adapterCall.out.value = KeysFor(adapterCall.prediction_type)
    /\ prediction_type \in {Unset, StrEnergy, StrForce} =>
          \A k \in 1..Len(unified_results), name \in ConfiguredNames :
              LET e == unified_results[k][name]
              IN  "error" \notin DOMAIN e =>
                      DOMAIN e = KeysFor(prediction_type)

\* C7 witness: predict_batch has returned, for prediction_type "energy" and
\* a two-model ensemble, a record whose model entries hold energy only.
C7_Witness ==
    /\ pc = "batch_returned"
    /\ prediction_type = StrEnergy
    /\ Cardinality(ConfiguredNames) = 2
    /\ Len(outcome.value) = 1
    /\ \A name \in ConfiguredNames :
          DOMAIN outcome.value[1][name] = {"energy"}
    /\ DOMAIN outcome.value[1] = {"index", "structure"} \cup ConfiguredNames

\* C8: whenever an adapter's predict ends by raising, the error is the
\* prediction error that carries the adapter's model name followed by the
\* original cause; for MACE, EqV2, CHGNET and MatterSim alike.
C8_FailureIsWrapped ==
    (adapterCall.op = "predict" /\ adapterCall.out.kind = "raise") =>
        /\ adapterCall.out.type = "RuntimeError"
        /\ Len(adapterCall.out.msg) > 3
        /\ SubSeq(adapterCall.out.msg, 1, 3) =
               <<adapterCall.self.model_name, "prediction", "failed:">>

CorrectionCalled == correctionCall.op = "apply_mp2020_correction"

\* C9: fallback law: whenever process_entry raises or returns nothing,
\* apply_mp2020_correction(E, s) returns exactly the raw energy E.
C9_FallbackLaw ==
    (CorrectionCalled
     /\ correctionCall.env \in {"process_raises", "process_none"}) =>
        correctionCall.done.out = Return(correctionCall.energy)

\* C9 witness: the scheme returned nothing for a structure whose corrected
\* energy would differ from the raw one, and the raw energy came back.
C9_Witness ==
    /\ CorrectionCalled
    /\ correctionCall.env = "process_none"
    /\ Mp2020Adjustment(correctionCall.structure.phys) # 0
    /\ correctionCall.done.out = Return(correctionCall.energy)

\* C10: apply_mp2020_correction never ends by raising: any failure, while
\* building the compatibility processor or the computed entry or while
\* applying the scheme, is reported and answered with the raw energy.
C10_NeverPropagates ==
    CorrectionCalled =>
        /\ correctionCall.done.out.kind = "return"
        /\ correctionCall.env # "ok" =>
              /\ correctionCall.done.out.value = correctionCall.energy
              /\ correctionCall.done.printed # <<>>

AdapterBatchCalled == adapterCall.op = "predict_batch"

\* what the adapter's own predict gives on structure k of the batch, in the
\* environment iteration k ran in
PredictOnItem(k) ==
    AdapterPredict(adapterCall.self, adapterCall.structures[k], Unset,
                   adapterCall.envs[k])

\* C11: an adapter's predict_batch never ends by raising; the entries built
\* so far are those of structures 0, 1, ... in input order, entry k carrying
\* index k; when predict fails on structure i its entry is exactly
\* {index: i, error: message}; and the list returned has one entry per input
\* structure, so the structures after a failing one were processed.
C11_AdapterBatchIsolates ==
    AdapterBatchCalled =>
        /\ pc # "adapter_batch_raised"
        /\ Len(adapterCall.results) <= Len(adapterCall.structures)
        /\ \A k \in 1..Len(adapterCall.results) :
              /\ adapterCall.results[k]["index"] = k - 1
              /\ PredictOnItem(k).kind = "raise" =>
                    /\ DOMAIN adapterCall.results[k] = {"index", "error"}
                    /\ Len(adapterCall.results[k]["error"]) > 0
        /\ pc = "adapter_batch_returned" =>
              /\ outcome = Return(adapterCall.results)
              /\ Len(outcome.value) = Len(adapterCall.structures)

\* C11 witness: the predict_batch of EqV2 (whose predict raises unwrapped)
\* has returned two entries, an error entry for structure 0, on which predict
\* failed, and a result for structure 1.
C11_Witness ==
    /\ AdapterBatchCalled
    /\ pc = "adapter_batch_returned"
    /\ adapterCall.self.model_name = "EqV2"
    /\ Len(outcome.value) = 2
    /\ PredictOnItem(1).kind = "raise"
    /\ DOMAIN outcome.value[1] = {"index", "error"}
    /\ DOMAIN outcome.value[2] = {"index", "energy", "forces"}

\* C19: for every adapter, CHGNET included, whenever predict succeeds on
\* structure i, entry i of predict_batch is {index: i} merged with that
\* prediction and has no error key.
C19_ErrorOnlyIfPredictFails ==
    AdapterBatchCalled =>
        \A k \in 1..Len(adapterCall.results) :
            PredictOnItem(k).kind = "return" =>
                /\ "error" \notin DOMAIN adapterCall.results[k]
                /\ adapterCall.results[k] =
                       WithIndex(k - 1, PredictOnItem(k).value)

\* C12: configuration fails fast. When construction has ended on a
\* configuration list with an unrecognized name, at whatever position, it
\* has raised the unsupported-model error, no adapter was constructed (no
\* model was loaded) before the error, and no manager exists.
C12_FailsFast ==
    pc = "config_error" =>
        /\ outcome.kind = "raise"
        /\ SubSeq(outcome.msg, 1, 3) = <<"Unsupported", "model", "name:">>
        /\ loaded = <<>>
        /\ models = <<>>

SerializeCalled == serializeCall.op = "serialize_results"

\* a generic JSON encoder can represent the value: a plain number or string,
\* or a list or mapping of such values, at any depth
RECURSIVE JsonSafe(_)
JsonSafe(value) ==
    IF value.type = "list"
    THEN \A j \in 1..Len(value.val) : JsonSafe(value.val[j])
    ELSE IF value.type = "dict"
    THEN \A k \in DOMAIN value.val : JsonSafe(value.val[k])
    ELSE value.type \in {"float", "int", "str"}

\* C13: the output of serialize_results holds no value a generic JSON
\* encoder cannot represent, whatever the nesting of the input: every
\* numeric array and numeric scalar wrapper is converted wherever it occurs,
\* inside lists and inside nested mappings included.
C13_OutputIsJsonSafe ==
    SerializeCalled =>
        \A i \in 1..Len(serializeCall.out) :
            \A key \in DOMAIN serializeCall.out[i] :
                JsonSafe(serializeCall.out[i][key])

\* C14: serialize_results is idempotent and shape preserving: applied to its
\* own output it returns that output, and its output has as many records
\* as its input, each with the key set of the input record.
C14_Idempotent ==
    /\ SerializeCalled =>
          /\ Len(serializeCall.out) = Len(serializeCall.results)
          /\ \A i \in 1..Len(serializeCall.out) :
                DOMAIN serializeCall.out[i] = DOMAIN serializeCall.results[i]
    /\ pc = "serialized_twice" => serializeCall.again = serializeCall.out

\* C14 witness: a record with a numpy scalar inside a nested mapping was
\* serialized (and so changed), and serializing the output again gave the
\* output.
C14_Witness ==
    /\ pc = "serialized_twice"
    /\ Len(serializeCall.results) = 1
    /\ serializeCall.results[1]["MACE"] =
           PyDict([k \in {"energy"} |-> NpScalar("np.int64", 1)])
    /\ serializeCall.out[1]["MACE"] = PyDict([k \in {"energy"} |-> PyInt(1)])
    /\ serializeCall.again = serializeCall.out

\* the frames of a list of dataset entries
FramesOf(entries) == {entries[j].ase_atoms.phys : j \in 1..Len(entries)}

\* C15: when load_and_split_traj has returned, its train and test sets
\* partition the loaded trajectory: no frame is in both, every frame is in
\* one of them exactly once, and the test set has ceil(test_size * n) of the
\* n frames.
C15_SplitIsPartition ==
    (splitCall.op = "load_and_split_traj" /\ splitCall.out.kind = "return") =>
        LET train == splitCall.out.value["train"]
            test == splitCall.out.value["test"]
            n == Len(splitCall.traj)
        IN  /\ FramesOf(train) \cap FramesOf(test) = {}
            /\ FramesOf(train) \cup FramesOf(test) = 1..n
            /\ Len(train) + Len(test) = n
            /\ Len(test) = (n * splitCall.test_size + 99) \div 100

\* no Atoms object carries a calculator: the state of the structures before
\* any call
NothingAttached == calc = [p \in Phys |-> NoCalc]

\* C16: structure records are consumed read-only: once an adapter's predict
\* has ended, and once predict_batch has ended, the structures are as they
\* were before the call; no adapter's calculator handle is left attached.
C16_RecordsUntouched ==
    /\ pc = "adapter_done" => NothingAttached
    /\ BatchEnded => NothingAttached

\* C17: predict builds each per-model entry as predict_batch does for the
\* same record: every iteration of predict's loop stores, under the model's
\* name, what the try statement of predict_batch stores for that model when
\* the representation is selected from the caller's record (structures[1]),
\* in some environment; whichever adapters ran before.
C17_PredictIsBatchLogic ==
    [][(pc = "predict_models" /\ mi' = mi + 1) =>
          \E env \in ManagerEnvs :
              results' =
                  TryExcept(results,
                            _get_structure_for_model(structures[1],
                                                     models[mi + 1]),
                            models[mi + 1], prediction_type, env).value]_vars

InBatch == pc \in {"batch_for", "batch_models", "batch_raised", "batch_returned"}

\* the adapter calls[k] was made on: the one at its position in self.models
CallModelIsAtPosition(k) == calls[k].model = models[calls[k].position]

C20_ReadsOwnHandle ==
    InBatch =>
        /\ \A k \in 1..Len(calls) :
              (calls[k].called
               /\ calls[k].model.required_input_format = "ase") =>
                  calls[k].reads = calls[k].model.calc
        /\ \A k \in 1..Len(unified_results), m \in 1..Len(models) :
              LET e == unified_results[k][models[m].model_name]
              IN  (Owner(m) /\ models[m].required_input_format = "ase"
                   /\ "forces" \in DOMAIN e) =>
                      e["forces"] =
                          CalcForces(models[m].calc,
                                     structures[k]["ase_atoms"].phys)

\* C20 witness: two different atoms-format adapters were run in turn on
\* the same atoms object, the second finding the first one's handle on it,
\* and each read from its own handle.
C20_Witness ==
    /\ pc = "batch_returned"
    /\ Len(calls) = 2
    /\ calls[1].called /\ calls[2].called
    /\ calls[1].structure = calls[2].structure
    /\ calls[1].structure.type = "Atoms"
    /\ calls[1].model.model_name # calls[2].model.model_name
    /\ calls[1].reads = calls[1].model.calc
    /\ calls[2].reads = calls[2].model.calc
    /\ calc[calls[2].structure.phys] = calls[2].model.calc

\* a per-model entry is well formed: an error key alone, or at least one
\* of energy and forces and nothing else
WellFormedEntry(e) ==
    \/ DOMAIN e = {"error"}
    \/ /\ DOMAIN e # {}
       /\ DOMAIN e \subseteq {"energy", "forces"}

\* C21: for every prediction_type a caller may pass, 'stress' included,
\* every per-model entry predict has stored and every per-model entry of a
\* record predict_batch has built is non-empty and well formed: an error
\* key alone, or at least one of energy and forces, never both kinds.
C21_EntriesWellFormed ==
    /\ \A name \in DOMAIN results : WellFormedEntry(results[name])
    /\ \A k \in 1..Len(unified_results) :
          \A name \in ConfiguredNames :
              WellFormedEntry(unified_results[k][name])

=============================================================================
